---- MODULE Spec2Model ----
(***************************************************************************)
(* Model of sturdy/utils/taofi_subgraph.py: the 256-bit modular            *)
(* subtraction, the per-position fee computation of get_positions_fees,    *)
(* the pagination loop of get_all_positions_fees and the growth            *)
(* computation of calculate_fee_growth.                                    *)
(*                                                                         *)
(* Scaling.  The accumulators of the program are 256 bits wide and the     *)
(* fixed-point unit is 2^128.  The model keeps the ratio X256 = X128^2     *)
(* and the rule MAX_REASONABLE_FEE_DIFF = X128 // 100 but uses             *)
(* X128 = 2^WordBits, so that every product fits TLC's 32-bit integers.    *)
(* Decimal-adjusted amounts (Python floats) are represented exactly, as    *)
(* integers in units of 10^-MaxDecimals; float rounding is not modelled.   *)
(***************************************************************************)
EXTENDS Integers, Sequences, FiniteSets, TLC

\* ------------------------------------------------------------------ bounds
WordBits == 10
MaxDecimals == 1
BatchSize == 2
MaxPages == 3

\* --------------------------------------------------------------- constants
X128 == 2 ^ WordBits
X256 == X128 * X128
MAX_REASONABLE_FEE_DIFF == X128 \div 100

VARIABLES
    x, y, difference,        \* sub_in_256: arguments and returned value
    pc,                      \* position of the running coroutine
    phase,                   \* which fetch of calculate_fee_growth is running
    skip,                    \* get_all_positions_fees: pagination offset
    all_positions,           \* get_all_positions_fees: accumulated mapping
    positions,               \* get_positions_fees: the page the source returned
    idx,                     \* get_positions_fees: loop index into positions
    positions_fees,          \* get_positions_fees: mapping built from the page
    pool_data_cache,         \* get_positions_fees: pool id -> token1Price
    locals,                  \* get_positions_fees: locals of the last iteration
    positions_fees_start,    \* calculate_fee_growth: start snapshot
    positions_fees_end,      \* calculate_fee_growth: end snapshot
    positions_growth,        \* calculate_fee_growth: growth mapping
    result,                  \* what calculate_fee_growth handed to its caller
    requests,                \* offsets of the page queries of the running fetch
    pool_queries,            \* pool id -> pool queries issued by the running fetch
    page_pool_queries,       \* pool id -> pool queries issued for the current page
    failures                 \* number of queries that raised

vars == <<x, y, difference, pc, phase, skip, all_positions, positions, idx,
          positions_fees, pool_data_cache, locals, positions_fees_start,
          positions_fees_end, positions_growth, result, requests,
          pool_queries, page_pool_queries, failures>>

\* ------------------------------------------------------------ data source
Pools == {"poolA", "poolB"}
\* enough distinct position ids to fill a page
PositionIds == 1 .. BatchSize
\* Python's None: a value that equals no mapping, tuple or record of locals
NoValue == [none |-> TRUE]
EmptyDict == << >>

\* token1Price the source reports for a pool (POOL_TICK_QUERY response)
PoolToken1Price(pool_id) == IF pool_id = "poolA" THEN 1 ELSE 2

Max(a, b) == IF a >= b THEN a ELSE b

\* ------------------------------------------------------------- arithmetic
sub_in_256_unwrapped(a, b) == a - b

sub_in_256(a, b) ==
    LET d == a - b
    IN  IF d < 0 THEN X256 + d ELSE d

\* ---------------------------------------------------------- fee accountant
fee_growth_above_swapped(tick_current, tick_upper, fee_growth_global, outside) ==
    IF tick_current >= tick_upper
    THEN outside
    ELSE sub_in_256(fee_growth_global, outside)

fee_growth_above(tick_current, tick_upper, fee_growth_global, outside) ==
    IF tick_current >= tick_upper
    THEN sub_in_256(fee_growth_global, outside)
    ELSE outside

fee_growth_below_swapped(tick_current, tick_lower, fee_growth_global, outside) ==
    IF tick_current >= tick_lower
    THEN sub_in_256(fee_growth_global, outside)
    ELSE outside

fee_growth_below(tick_current, tick_lower, fee_growth_global, outside) ==
    IF tick_current >= tick_lower
    THEN outside
    ELSE sub_in_256(fee_growth_global, outside)

fr_t1(fee_growth_global, below, above) ==
    sub_in_256(sub_in_256(fee_growth_global, below), above)

cap_fee_diff_doubled(fee_diff) ==
    IF fee_diff > 2 * MAX_REASONABLE_FEE_DIFF THEN 0 ELSE fee_diff

cap_fee_diff(fee_diff) ==
    IF fee_diff > MAX_REASONABLE_FEE_DIFF THEN 0 ELSE fee_diff

uncollected_fees(position_liquidity, fee_diff) ==
    (position_liquidity * fee_diff) \div X128

\* amount / 10**decimals, in units of 10^-MaxDecimals
decimal_adjust(amount, decimals) == amount * (10 ^ (MaxDecimals - decimals))

\* One iteration of the loop of get_positions_fees: every local it assigns.
ComputeFees(position, token0_to_token1_rate) ==
    LET tick_current == position.tick
        tick_lower == position.tickLower
        tick_upper == position.tickUpper
        g0 == position.feeGrowthGlobal0X128
        g1 == position.feeGrowthGlobal1X128
        above_0 == fee_growth_above(tick_current, tick_upper, g0, position.upperOutside0)
        above_1 == fee_growth_above(tick_current, tick_upper, g1, position.upperOutside1)
        below_0 == fee_growth_below(tick_current, tick_lower, g0, position.lowerOutside0)
        below_1 == fee_growth_below(tick_current, tick_lower, g1, position.lowerOutside1)
        fr_0 == fr_t1(g0, below_0, above_0)
        fr_1 == fr_t1(g1, below_1, above_1)
        raw_diff_0 == sub_in_256(fr_0, position.feeGrowthInside0LastX128)
        raw_diff_1 == sub_in_256(fr_1, position.feeGrowthInside1LastX128)
        diff_0 == cap_fee_diff(raw_diff_0)
        diff_1 == cap_fee_diff(raw_diff_1)
        unc_0 == uncollected_fees(position.liquidity, diff_0)
        unc_1 == uncollected_fees(position.liquidity, diff_1)
        col_0 == Max(0, position.collectedFeesToken0)
        col_1 == Max(0, position.collectedFeesToken1)
        unc_adj_0 == Max(0, decimal_adjust(unc_0, position.decimals0))
        unc_adj_1 == Max(0, decimal_adjust(unc_1, position.decimals1))
        col_adj_0 == decimal_adjust(col_0, position.decimals0)
        col_adj_1 == decimal_adjust(col_1, position.decimals1)
        unc_eq == unc_adj_0 * token0_to_token1_rate + unc_adj_1
        col_eq == col_adj_0 * token0_to_token1_rate + col_adj_1
    IN  [ tick_upper_fee_growth_above_0 |-> above_0,
          tick_upper_fee_growth_above_1 |-> above_1,
          tick_lower_fee_growth_below_0 |-> below_0,
          tick_lower_fee_growth_below_1 |-> below_1,
          fr_t1_0 |-> fr_0,
          fr_t1_1 |-> fr_1,
          raw_fee_diff_0 |-> raw_diff_0,
          raw_fee_diff_1 |-> raw_diff_1,
          fee_diff_0 |-> diff_0,
          fee_diff_1 |-> diff_1,
          uncollected_fees_0 |-> unc_0,
          uncollected_fees_1 |-> unc_1,
          fees |-> [ uncollected_fees_0 |-> unc_adj_0,
                     uncollected_fees_1 |-> unc_adj_1,
                     collected_fees_0 |-> col_adj_0,
                     collected_fees_1 |-> col_adj_1,
                     position_liquidity |-> position.liquidity,
                     owner |-> position.owner,
                     uncollected_fees_token1_equivalent |-> unc_eq,
                     collected_fees_token1_equivalent |-> col_eq,
                     total_fees_token1_equivalent |-> unc_eq + col_eq ] ]


\* ------------------------------------------------------------------ dicts
Put(dict, key, value) ==
    [k \in (DOMAIN dict) \cup {key} |-> IF k = key THEN value ELSE dict[k]]

\* dict.update(other)
Update(dict, other) ==
    [k \in (DOMAIN dict) \cup (DOMAIN other) |->
        IF k \in DOMAIN other THEN other[k] ELSE dict[k]]

ZeroCounts == [p \in Pools |-> 0]

\* ------------------------------------------------- records of the source
\* A position record as POSITIONS_QUERY returns it (numeric strings parsed).
PositionRecord(id, owner, pool_id, tick, liquidity, g, lower_out, upper_out, last, collected, decimals) ==
    [ id |-> id, owner |-> owner, pool |-> pool_id,
      decimals0 |-> decimals[1], decimals1 |-> decimals[2],
      tick |-> tick, tickLower |-> -1, tickUpper |-> 1,
      feeGrowthGlobal0X128 |-> g[1], feeGrowthGlobal1X128 |-> g[2],
      lowerOutside0 |-> lower_out[1], lowerOutside1 |-> lower_out[2],
      upperOutside0 |-> upper_out[1], upperOutside1 |-> upper_out[2],
      liquidity |-> liquidity,
      feeGrowthInside0LastX128 |-> last[1], feeGrowthInside1LastX128 |-> last[2],
      collectedFeesToken0 |-> collected[1], collectedFeesToken1 |-> collected[2] ]

\* Records the paginated source serves: any id in any pool (the pools differ in
\* price, so a position's valuation depends on the pool it is served with).
SourceRecords ==
    { PositionRecord(id, IF id = 1 THEN "alice" ELSE "bob", pool_id, 0, X128,
                     <<MAX_REASONABLE_FEE_DIFF, 2>>, <<0, 0>>, <<0, 0>>, <<0, 1>>,
                     <<3, 0>>, <<0, MaxDecimals>>)
      : id \in PositionIds, pool_id \in Pools }

\* Pages the source may answer to the n-th page query (n counted from 1): at
\* most `first` records; the source holds fewer than MaxPages full pages.
SourcePages(n) ==
    LET limit == IF n < MaxPages THEN BatchSize ELSE BatchSize - 1
    IN  UNION { [1 .. len -> SourceRecords] : len \in 0 .. limit }

\* ----------------------------------------------------- growth calculator
growth_of_unclamped(start_fees, end_fees) ==
    LET liquidity_growth == end_fees.position_liquidity - start_fees.position_liquidity
    IN  [ uncollected_fees_0 |-> end_fees.uncollected_fees_0 - start_fees.uncollected_fees_0,
          uncollected_fees_1 |-> end_fees.uncollected_fees_1 - start_fees.uncollected_fees_1,
          collected_fees_0 |-> end_fees.collected_fees_0 - start_fees.collected_fees_0,
          collected_fees_1 |-> end_fees.collected_fees_1 - start_fees.collected_fees_1,
          position_liquidity |-> liquidity_growth,
          owner |-> end_fees.owner,
          uncollected_fees_token1_equivalent |->
              end_fees.uncollected_fees_token1_equivalent
                  - start_fees.uncollected_fees_token1_equivalent,
          collected_fees_token1_equivalent |->
              end_fees.collected_fees_token1_equivalent
                  - start_fees.collected_fees_token1_equivalent,
          total_fees_token1_equivalent |->
              end_fees.total_fees_token1_equivalent
                  - start_fees.total_fees_token1_equivalent ]

growth_of_ignoring_shrink(start_fees, end_fees) ==
    LET unclamped == growth_of_unclamped(start_fees, end_fees)
    IN  [ uncollected_fees_0 |-> Max(0, unclamped.uncollected_fees_0),
          uncollected_fees_1 |-> Max(0, unclamped.uncollected_fees_1),
          collected_fees_0 |-> Max(0, unclamped.collected_fees_0),
          collected_fees_1 |-> Max(0, unclamped.collected_fees_1),
          position_liquidity |-> unclamped.position_liquidity,
          owner |-> unclamped.owner,
          uncollected_fees_token1_equivalent |->
              Max(0, unclamped.uncollected_fees_token1_equivalent),
          collected_fees_token1_equivalent |->
              Max(0, unclamped.collected_fees_token1_equivalent),
          total_fees_token1_equivalent |->
              Max(0, unclamped.total_fees_token1_equivalent) ]

\* lines 219-237: the growth of a position present in both snapshots
growth_of(start_fees, end_fees) ==
    LET liquidity_growth == end_fees.position_liquidity - start_fees.position_liquidity
    IN  IF liquidity_growth < 0
        THEN [ uncollected_fees_0 |-> 0, uncollected_fees_1 |-> 0,
               collected_fees_0 |-> 0, collected_fees_1 |-> 0,
               position_liquidity |-> liquidity_growth,
               owner |-> end_fees.owner,
               uncollected_fees_token1_equivalent |-> 0,
               collected_fees_token1_equivalent |-> 0,
               total_fees_token1_equivalent |-> 0 ]
        ELSE [ uncollected_fees_0 |->
                   Max(0, end_fees.uncollected_fees_0 - start_fees.uncollected_fees_0),
               uncollected_fees_1 |->
                   Max(0, end_fees.uncollected_fees_1 - start_fees.uncollected_fees_1),
               collected_fees_0 |->
                   Max(0, end_fees.collected_fees_0 - start_fees.collected_fees_0),
               collected_fees_1 |->
                   Max(0, end_fees.collected_fees_1 - start_fees.collected_fees_1),
               position_liquidity |-> liquidity_growth,
               owner |-> end_fees.owner,
               uncollected_fees_token1_equivalent |->
                   Max(0, end_fees.uncollected_fees_token1_equivalent
                            - start_fees.uncollected_fees_token1_equivalent),
               collected_fees_token1_equivalent |->
                   Max(0, end_fees.collected_fees_token1_equivalent
                            - start_fees.collected_fees_token1_equivalent),
               total_fees_token1_equivalent |->
                   Max(0, end_fees.total_fees_token1_equivalent
                            - start_fees.total_fees_token1_equivalent) ]

growth_positions_all_ids(start, end) ==
    [position_id \in (DOMAIN end) \cup (DOMAIN start) |->
        IF position_id \notin DOMAIN end
        THEN start[position_id]
        ELSE IF position_id \notin DOMAIN start
             THEN end[position_id]
             ELSE growth_of(start[position_id], end[position_id])]

\* lines 211-238: the loop over the end snapshot
growth_positions(start, end) ==
    [position_id \in DOMAIN end |->
        IF position_id \notin DOMAIN start
        THEN end[position_id]
        ELSE growth_of(start[position_id], end[position_id])]

\* ------------------------------------------------------------ the pipeline
\* where control goes when an awaited query raises: nothing catches it
exception_retry == "query_positions"

exception_exit == "failed"

Init ==
    /\ x = 0 /\ y = 0 /\ difference = NoValue
    /\ pc = "query_positions"
    /\ phase = "start"
    /\ skip = 0
    /\ all_positions = EmptyDict
    /\ positions = << >>
    /\ idx = 1
    /\ positions_fees = EmptyDict
    /\ pool_data_cache = EmptyDict
    /\ locals = NoValue
    /\ positions_fees_start = NoValue
    /\ positions_fees_end = NoValue
    /\ positions_growth = NoValue
    /\ result = NoValue
    /\ requests = << >>
    /\ pool_queries = ZeroCounts
    /\ page_pool_queries = ZeroCounts
    /\ failures = 0

arith_vars == <<x, y, difference>>
growth_vars == <<positions_fees_start, positions_fees_end, positions_growth, result>>

\* get_positions_fees, lines 59-66: the page query answers
QueryPositions ==
    /\ pc = "query_positions"
    /\ \E page \in SourcePages(Len(requests) + 1) :
           positions' = page
    /\ requests' = Append(requests, skip)
    /\ positions_fees' = EmptyDict
    /\ pool_data_cache' = EmptyDict
    /\ page_pool_queries' = ZeroCounts
    /\ idx' = 1
    /\ locals' = NoValue
    /\ pc' = "for_position"
    /\ UNCHANGED <<phase, skip, all_positions, pool_queries, failures>>
    /\ UNCHANGED arith_vars /\ UNCHANGED growth_vars

\* get_positions_fees, line 59: the page query raises
QueryPositionsRaises ==
    /\ pc = "query_positions"
    /\ requests' = Append(requests, skip)
    /\ failures' = failures + 1
    /\ pc' = exception_exit
    /\ UNCHANGED <<phase, skip, all_positions, positions, idx, positions_fees,
                   pool_data_cache, locals, pool_queries, page_pool_queries>>
    /\ UNCHANGED arith_vars /\ UNCHANGED growth_vars

\* lines 86-186 of one iteration, given the cache after lines 76-83
FinishIteration(position, cache) ==
    LET computed == ComputeFees(position, cache[position.pool])
    IN  /\ pool_data_cache' = cache
        /\ locals' = computed
        /\ positions_fees' = Put(positions_fees, position.id, computed.fees)
        /\ idx' = idx + 1
        /\ UNCHANGED <<pc, phase, skip, all_positions, positions, requests, failures>>
        /\ UNCHANGED arith_vars /\ UNCHANGED growth_vars

cached_never(pool_id, cache) == FALSE

\* line 76: is the pool's data in the cache
cached(pool_id, cache) == pool_id \in DOMAIN cache

\* one iteration whose pool is in pool_data_cache (line 76 false)
ProcessPositionCached ==
    /\ pc = "for_position"
    /\ idx <= Len(positions)
    /\ cached(positions[idx].pool, pool_data_cache)
    /\ FinishIteration(positions[idx], pool_data_cache)
    /\ UNCHANGED <<pool_queries, page_pool_queries>>

\* one iteration whose pool is not cached: lines 77-83 query the pool
ProcessPositionQueryPool ==
    /\ pc = "for_position"
    /\ idx <= Len(positions)
    /\ LET pool_id == positions[idx].pool
       IN  /\ ~cached(pool_id, pool_data_cache)
           /\ pool_queries' = [pool_queries EXCEPT ![pool_id] = @ + 1]
           /\ page_pool_queries' = [page_pool_queries EXCEPT ![pool_id] = @ + 1]
           /\ FinishIteration(positions[idx],
                              Put(pool_data_cache, pool_id, PoolToken1Price(pool_id)))

\* line 77: the pool query raises
PoolQueryRaises ==
    /\ pc = "for_position"
    /\ idx <= Len(positions)
    /\ LET pool_id == positions[idx].pool
       IN  /\ ~cached(pool_id, pool_data_cache)
           /\ pool_queries' = [pool_queries EXCEPT ![pool_id] = @ + 1]
           /\ page_pool_queries' = [page_pool_queries EXCEPT ![pool_id] = @ + 1]
    /\ failures' = failures + 1
    /\ pc' = exception_exit
    /\ UNCHANGED <<phase, skip, all_positions, positions, idx, positions_fees,
                   pool_data_cache, locals, requests>>
    /\ UNCHANGED arith_vars /\ UNCHANGED growth_vars

\* line 354: len(batch_positions), the size of the page's mapping
batch_length(batch_positions) == Cardinality(DOMAIN batch_positions)

\* line 190 returns the page's mapping; lines 348-357 decide
EndOfPage ==
    /\ pc = "for_position"
    /\ idx > Len(positions)
    /\ LET batch_positions == positions_fees
       IN  IF batch_positions = EmptyDict
           THEN /\ pc' = "return_all"
                /\ UNCHANGED <<all_positions, skip>>
           ELSE /\ all_positions' = Update(all_positions, batch_positions)
                /\ IF batch_length(batch_positions) < BatchSize
                   THEN pc' = "return_all" /\ UNCHANGED skip
                   ELSE pc' = "query_positions" /\ skip' = skip + BatchSize
    /\ UNCHANGED <<phase, positions, idx, positions_fees, pool_data_cache, locals,
                   requests, pool_queries, page_pool_queries, failures>>
    /\ UNCHANGED arith_vars /\ UNCHANGED growth_vars

\* line 359 returns to line 208; line 209 starts the second fetch (342-343)
ReturnStart ==
    /\ pc = "return_all"
    /\ phase = "start"
    /\ positions_fees_start' = all_positions
    /\ phase' = "end"
    /\ all_positions' = EmptyDict
    /\ skip' = 0
    /\ requests' = << >>
    /\ pool_queries' = ZeroCounts
    /\ pc' = "query_positions"
    /\ UNCHANGED <<positions, idx, positions_fees, pool_data_cache, locals,
                   page_pool_queries, failures,
                   positions_fees_end, positions_growth, result>>
    /\ UNCHANGED arith_vars

\* line 359 returns to line 209
ReturnEnd ==
    /\ pc = "return_all"
    /\ phase = "end"
    /\ positions_fees_end' = all_positions
    /\ pc' = "growth"
    /\ UNCHANGED <<phase, skip, all_positions, positions, idx, positions_fees,
                   pool_data_cache, locals, requests, pool_queries,
                   page_pool_queries, failures,
                   positions_fees_start, positions_growth, result>>
    /\ UNCHANGED arith_vars

\* calculate_fee_growth, lines 211-240
ComputeGrowth ==
    /\ pc = "growth"
    /\ positions_growth' = growth_positions(positions_fees_start, positions_fees_end)
    /\ result' = <<positions_fees_start, positions_fees_end, positions_growth'>>
    /\ pc' = "done"
    /\ UNCHANGED <<phase, skip, all_positions, positions, idx, positions_fees,
                   pool_data_cache, locals, requests, pool_queries,
                   page_pool_queries, failures,
                   positions_fees_start, positions_fees_end>>
    /\ UNCHANGED arith_vars

Next ==
    \/ QueryPositions
    \/ QueryPositionsRaises
    \/ ProcessPositionCached
    \/ ProcessPositionQueryPool
    \/ PoolQueryRaises
    \/ EndOfPage
    \/ ReturnStart
    \/ ReturnEnd
    \/ ComputeGrowth

Spec == Init /\ [][Next]_vars


\* ------------------------------------------- sub_in_256 on sampled inputs
\* values around 0, the clamp threshold, 2^128 and 2^256 - 1
AccumulatorSamples ==
    (0 .. 3) \cup { MAX_REASONABLE_FEE_DIFF, MAX_REASONABLE_FEE_DIFF + 1,
                    X128 - 1, X128, X128 + 1, X256 - X128, X256 - 2, X256 - 1 }

InitSub ==
    /\ x \in AccumulatorSamples /\ y \in AccumulatorSamples
    /\ difference = NoValue
    /\ pc = "sub_in_256"
    /\ phase = "start" /\ skip = 0 /\ all_positions = EmptyDict
    /\ positions = << >> /\ idx = 1 /\ positions_fees = EmptyDict
    /\ pool_data_cache = EmptyDict /\ locals = NoValue
    /\ positions_fees_start = NoValue /\ positions_fees_end = NoValue
    /\ positions_growth = NoValue /\ result = NoValue
    /\ requests = << >> /\ pool_queries = ZeroCounts
    /\ page_pool_queries = ZeroCounts /\ failures = 0

\* lines 21-26
Call_sub_in_256 ==
    /\ pc = "sub_in_256"
    /\ difference' = sub_in_256(x, y)
    /\ pc' = "returned"
    /\ UNCHANGED <<x, y, phase, skip, all_positions, positions, idx, positions_fees,
                   pool_data_cache, locals, requests, pool_queries,
                   page_pool_queries, failures>>
    /\ UNCHANGED growth_vars

NextSub == Call_sub_in_256

SpecSub == InitSub /\ [][NextSub]_vars

\* ------------------------------- one position through the fee accountant
GlobalSamples == { 1, MAX_REASONABLE_FEE_DIFF, MAX_REASONABLE_FEE_DIFF + 1 }
OutsideSamples == { 0, 1, X256 - 1 }
LastSamples == { 0, 1 }
TickSamples == -2 .. 2
LiquiditySamples == { 0, 3 * X128 }
DecimalPairs == { <<d, MaxDecimals - d>> : d \in 0 .. MaxDecimals }
CollectedPairs == { <<-1, 2>>, <<3, 0>> }

FeeRecords ==
    { PositionRecord(1, "alice", "poolB", tick, liquidity, g, lo, up, last, collected, decimals)
      : tick \in TickSamples, liquidity \in LiquiditySamples,
        g \in GlobalSamples \X GlobalSamples,
        lo \in OutsideSamples \X OutsideSamples,
        up \in OutsideSamples \X OutsideSamples,
        last \in LastSamples \X LastSamples,
        collected \in CollectedPairs, decimals \in DecimalPairs }

\* get_positions_fees after its page query answered with one record
InitFees ==
    /\ x = 0 /\ y = 0 /\ difference = NoValue
    /\ pc = "for_position"
    /\ phase = "start" /\ skip = 0 /\ all_positions = EmptyDict
    /\ \E position \in FeeRecords : positions = <<position>>
    /\ idx = 1 /\ positions_fees = EmptyDict
    /\ pool_data_cache = EmptyDict /\ locals = NoValue
    /\ positions_fees_start = NoValue /\ positions_fees_end = NoValue
    /\ positions_growth = NoValue /\ result = NoValue
    /\ requests = <<0>> /\ pool_queries = ZeroCounts
    /\ page_pool_queries = ZeroCounts /\ failures = 0

NextFees == ProcessPositionQueryPool

SpecFees == InitFees /\ [][NextFees]_vars


\* ------------------------------------ the growth loop on sampled snapshots
\* PositionFees the fee accountant produces for one id: liquidity, fees and
\* owner differ between the samples, in both directions.
GrowthVariants ==
    { <<"alice", "poolA", X128,     <<0, 1>>, <<0, 0>>>>,
      <<"bob",   "poolB", 2 * X128, <<0, 0>>, <<5, 1>>>>,
      <<"alice", "poolA", 2 * X128, <<1, 1>>, <<0, 0>>>>,
      <<"bob",   "poolB", X128,     <<MAX_REASONABLE_FEE_DIFF, 2>>, <<5, 0>>>> }

FeeSamples ==
    { ComputeFees(PositionRecord(1, v[1], v[2], 0, v[3],
                                 <<MAX_REASONABLE_FEE_DIFF, 2>>, <<0, 0>>, <<0, 0>>,
                                 v[4], v[5], <<0, MaxDecimals>>),
                  PoolToken1Price(v[2])).fees
      : v \in GrowthVariants }

Snapshots == UNION { [ids -> FeeSamples] : ids \in SUBSET PositionIds }

\* calculate_fee_growth after both fetches returned (line 209 done)
InitGrowth ==
    /\ x = 0 /\ y = 0 /\ difference = NoValue
    /\ pc = "growth"
    /\ phase = "end" /\ skip = 0
    /\ positions_fees_start \in Snapshots
    /\ positions_fees_end \in Snapshots
    /\ all_positions = positions_fees_end
    /\ positions = << >> /\ idx = 1 /\ positions_fees = EmptyDict
    /\ pool_data_cache = EmptyDict /\ locals = NoValue
    /\ positions_growth = NoValue /\ result = NoValue
    /\ requests = <<0>> /\ pool_queries = ZeroCounts
    /\ page_pool_queries = ZeroCounts /\ failures = 0

NextGrowth == ComputeGrowth

SpecGrowth == InitGrowth /\ [][NextGrowth]_vars

\* ================================================================== claims

\* C1: for 0 <= x, y < 2^256, sub_in_256(x, y) is (x - y) mod 2^256 and lies
\* in [0, 2^256).
C1_SubIsModular ==
    pc = "returned" =>
        /\ difference = (x - y) % X256
        /\ difference >= 0
        /\ difference < X256

\* C1 witness: a call whose difference is negative has returned.
C1_Wrapped == pc = "returned" /\ x < y /\ difference > x

Processed == locals # NoValue /\ idx = 2 /\ Len(positions) = 1
Position == positions[1]

\* C2 as claimed: with tick_current >= tick_upper the fee growth above is the
\* upper tick's outside value itself, for both tokens.
C2_AboveIsOutsideAtOrAboveUpper ==
    (Processed /\ Position.tick >= Position.tickUpper) =>
        /\ locals.tick_upper_fee_growth_above_0 = Position.upperOutside0
        /\ locals.tick_upper_fee_growth_above_1 = Position.upperOutside1

\* C2 amended: with tick_current >= tick_upper the fee growth above is
\* (global - upper outside) mod 2^256; the outside value is used directly
\* exactly when tick_current < tick_upper.
C2_AboveSubtractsAtOrAboveUpper ==
    Processed =>
        IF Position.tick >= Position.tickUpper
        THEN /\ locals.tick_upper_fee_growth_above_0
                    = (Position.feeGrowthGlobal0X128 - Position.upperOutside0) % X256
             /\ locals.tick_upper_fee_growth_above_1
                    = (Position.feeGrowthGlobal1X128 - Position.upperOutside1) % X256
        ELSE /\ locals.tick_upper_fee_growth_above_0 = Position.upperOutside0
             /\ locals.tick_upper_fee_growth_above_1 = Position.upperOutside1

\* C2 witness: a position at or above its upper tick whose fee growth above
\* differs from the outside value.
C2_AboveUpperProcessed ==
    /\ Processed
    /\ Position.tick >= Position.tickUpper
    /\ locals.tick_upper_fee_growth_above_0 # Position.upperOutside0

\* C3: fee growth below is (global - lower outside) mod 2^256 when
\* tick_current < tick_lower and the lower outside value otherwise; fee growth
\* inside is ((global - below) mod 2^256 - above) mod 2^256.
C3_BelowAndInside ==
    Processed =>
        /\ locals.tick_lower_fee_growth_below_0
              = IF Position.tick < Position.tickLower
                THEN (Position.feeGrowthGlobal0X128 - Position.lowerOutside0) % X256
                ELSE Position.lowerOutside0
        /\ locals.tick_lower_fee_growth_below_1
              = IF Position.tick < Position.tickLower
                THEN (Position.feeGrowthGlobal1X128 - Position.lowerOutside1) % X256
                ELSE Position.lowerOutside1
        /\ locals.fr_t1_0
              = (((Position.feeGrowthGlobal0X128 - locals.tick_lower_fee_growth_below_0) % X256)
                    - locals.tick_upper_fee_growth_above_0) % X256
        /\ locals.fr_t1_1
              = (((Position.feeGrowthGlobal1X128 - locals.tick_lower_fee_growth_below_1) % X256)
                    - locals.tick_upper_fee_growth_above_1) % X256

\* C3 witness: a position below its lower tick whose subtraction wrapped.
C3_BelowLowerWrapped ==
    /\ Processed
    /\ Position.tick < Position.tickLower
    /\ Position.feeGrowthGlobal0X128 < Position.lowerOutside0
    /\ locals.tick_lower_fee_growth_below_0 > Position.feeGrowthGlobal0X128

\* C4 as claimed: a raw fee difference >= floor(2^128 / 100) gives zero
\* uncollected fees for that token.
C4_ZeroFromThreshold ==
    Processed =>
        /\ (locals.raw_fee_diff_0 >= MAX_REASONABLE_FEE_DIFF
                => locals.fees.uncollected_fees_0 = 0)
        /\ (locals.raw_fee_diff_1 >= MAX_REASONABLE_FEE_DIFF
                => locals.fees.uncollected_fees_1 = 0)

\* C4 amended: a raw fee difference strictly greater than floor(2^128 / 100)
\* gives zero uncollected fees for that token, for every liquidity.
C4_ZeroAboveThreshold ==
    Processed =>
        /\ (locals.raw_fee_diff_0 > MAX_REASONABLE_FEE_DIFF
                => locals.fees.uncollected_fees_0 = 0)
        /\ (locals.raw_fee_diff_1 > MAX_REASONABLE_FEE_DIFF
                => locals.fees.uncollected_fees_1 = 0)

\* C4 witness: a position with liquidity whose raw difference is just above
\* the threshold was clamped.
C4_ClampedJustAbove ==
    /\ Processed
    /\ Position.liquidity > 0
    /\ locals.raw_fee_diff_0 = MAX_REASONABLE_FEE_DIFF + 1
    /\ locals.fees.uncollected_fees_0 = 0


\* C5 as claimed: the pages are requested at offsets 0, batch_size, ...; the
\* fetch returns only after a page of fewer than batch_size records, and a
\* page of exactly batch_size records is followed by the next request.
C5_StopsOnlyAfterShortPage ==
    /\ \A i \in 1 .. Len(requests) : requests[i] = (i - 1) * BatchSize
    /\ (pc = "return_all" => Len(positions) < BatchSize)
    /\ ((pc = "query_positions" /\ requests # << >>) => Len(positions) = BatchSize)

Start == positions_fees_start
End == positions_fees_end
InBoth == (DOMAIN Start) \cap (DOMAIN End)
FeeFields ==
    { "uncollected_fees_0", "uncollected_fees_1", "collected_fees_0",
      "collected_fees_1", "uncollected_fees_token1_equivalent",
      "collected_fees_token1_equivalent", "total_fees_token1_equivalent" }
Shrank(id) == End[id].position_liquidity < Start[id].position_liquidity

\* C7: a position in both snapshots whose liquidity shrank has all seven fee
\* and valuation fields 0, liquidity end - start, and the end owner.
C7_ShrunkGrowthIsZero ==
    pc = "done" =>
        \A id \in InBoth :
            Shrank(id) =>
                /\ \A f \in FeeFields : positions_growth[id][f] = 0
                /\ positions_growth[id].position_liquidity
                       = End[id].position_liquidity - Start[id].position_liquidity
                /\ positions_growth[id].position_liquidity < 0
                /\ positions_growth[id].owner = End[id].owner

\* C7 witness: a position shrank while one of its fee fields grew and its
\* owner changed.
C7_ShrunkWithGrowingFees ==
    /\ pc = "done"
    /\ \E id \in InBoth :
           /\ Shrank(id)
           /\ End[id].collected_fees_0 > Start[id].collected_fees_0
           /\ End[id].owner # Start[id].owner

\* C8: a position in both snapshots whose liquidity did not shrink has every
\* fee and valuation field equal to max(0, end - start), never negative,
\* liquidity end - start, and the end owner.
C8_GrowthIsClampedDifference ==
    pc = "done" =>
        \A id \in InBoth :
            ~Shrank(id) =>
                /\ \A f \in FeeFields :
                       /\ positions_growth[id][f]
                              = IF End[id][f] > Start[id][f]
                                THEN End[id][f] - Start[id][f]
                                ELSE 0
                       /\ positions_growth[id][f] >= 0
                /\ positions_growth[id].position_liquidity
                       = End[id].position_liquidity - Start[id].position_liquidity
                /\ positions_growth[id].owner = End[id].owner

\* C8 witness: liquidity did not shrink, one fee field fell and another rose.
C8_MixedFeeChange ==
    /\ pc = "done"
    /\ \E id \in InBoth :
           /\ ~Shrank(id)
           /\ End[id].uncollected_fees_0 < Start[id].uncollected_fees_0
           /\ End[id].collected_fees_0 > Start[id].collected_fees_0
           /\ positions_growth[id].collected_fees_0 > 0

\* C9: the growth set has exactly the ids of the end snapshot, and an id
\* absent from the start snapshot maps to its end PositionFees unchanged.
C9_NewPositionsKeepEndFees ==
    pc = "done" =>
        /\ DOMAIN positions_growth = DOMAIN End
        /\ \A id \in (DOMAIN End) \ (DOMAIN Start) : positions_growth[id] = End[id]

\* C9 witness: one id only at the end, another only at the start.
C9_NewAndClosedPositions ==
    /\ pc = "done"
    /\ (DOMAIN End) \ (DOMAIN Start) # {}
    /\ (DOMAIN Start) \ (DOMAIN End) # {}

\* C10: once a page query or a pool query has raised, the call has failed for
\* good: nothing is returned (no snapshot of the failed fetch, no growth set,
\* no result) and no further query is issued.
C10_FailureAbortsCall ==
    failures > 0 =>
        /\ failures = 1
        /\ pc = "failed"
        /\ result = NoValue
        /\ positions_growth = NoValue
        /\ positions_fees_end = NoValue
        /\ (phase = "start" => positions_fees_start = NoValue)

\* C10 witness: a query of a later page raised after earlier pages had been
\* accumulated.
C10_FailedAfterPages ==
    /\ pc = "failed"
    /\ all_positions # EmptyDict
    /\ Len(requests) > 1

====
